---- MODULE Spec2Model ----
(***************************************************************************)
(* The blog backend of project_demo/demo-01: PostController in front of    *)
(* PostService, behind the global ValidationPipe of main.ts.  The store is *)
(* the service's in-memory array `posts` and its `idCounter`; every HTTP   *)
(* handler runs to completion (Node.js runs one handler at a time), so one *)
(* action is one request: pipes, service call and response.               *)
(*                                                                         *)
(* Strings that the code parses or searches (numeric query parameters,     *)
(* path ids, titles, keywords) are sequences of one-character strings.     *)
(* Strings that the code only compares for equality (enum values, field    *)
(* names) are TLA+ strings.  An optional value is a set: {} is undefined   *)
(* (or null), {v} is the value v.                                          *)
(***************************************************************************)
EXTENDS Integers, Sequences, FiniteSets, TLC

VARIABLES posts, idCounter, now, last,       \* PostService behind its controller
          stack,                            \* the service call in progress
          cache, db, getUser, updateUser,   \* the cache-aside example
          redis, isAllowed                  \* the rate limiter example

vars == <<posts, idCounter, now, last, stack, cache, db, getUser, updateUser,
          redis, isAllowed>>

\* the post store as the handlers see it
storeVars == <<posts, idCounter, now, last>>

\* the state of src/doc/20_redis_basics.md's examples
cacheVars == <<cache, db, getUser, updateUser>>

limiterVars == <<redis, isAllowed>>

(***************************************************************************)
(* Bounds of the model.                                                    *)
(***************************************************************************)
\* posts ever created
MaxPosts == 2
\* last value of the millisecond clock read by `new Date()`
MaxTime == 1
\* sum of all viewCount values (each findOne call adds one)
MaxViews == 2
\* updateUser calls made in the cache-aside example
MaxVersion == 2
\* the `limit` and the `window` (seconds) the rate limiter is called with
Limit == 2
Window == 1

(***************************************************************************)
(* Optional values and JavaScript numbers.                                 *)
(***************************************************************************)
None == {}

Some(v) == {v}

Val(o) == CHOOSE v \in o : TRUE

\* a JavaScript number that came out of a conversion: an integer or NaN
Num(n) == [nan |-> FALSE, n |-> n]

NaN == [nan |-> TRUE, n |-> 0]

Digits == <<"0", "1", "2", "3", "4", "5", "6", "7", "8", "9">>

IsDigit(c) == \E d \in 1..10 : Digits[d] = c

DigitValue(c) == (CHOOSE d \in 1..10 : Digits[d] = c) - 1

AllDigits(s) == Len(s) > 0 /\ \A i \in 1..Len(s) : IsDigit(s[i])

RECURSIVE DecValue(_)
DecValue(s) ==
  IF s = <<>> THEN 0
  ELSE 10 * DecValue(SubSeq(s, 1, Len(s) - 1)) + DigitValue(s[Len(s)])

\* /^-?\d+$/
IsIntSyntax(s) ==
  \/ AllDigits(s)
  \/ Len(s) > 1 /\ s[1] = "-" /\ AllDigits(Tail(s))

IntValue(s) == IF s[1] = "-" THEN 0 - DecValue(Tail(s)) ELSE DecValue(s)

\* Number(value) of class-transformer's @Type(() => Number) on a query-string
\* value: the empty string is 0, an integer literal is its value, any other
\* text of the alphabet used here is NaN
ToNumber(s) ==
  IF s = <<>> THEN Num(0)
  ELSE IF IsIntSyntax(s) THEN Num(IntValue(s))
  ELSE NaN

\* Boolean(value) of @Type(() => Boolean): every non-empty string is true
ToBoolean(s) == s # <<>>

\* String.prototype.includes
Includes(text, needle) ==
  \E i \in 0..(Len(text) - Len(needle)) :
    SubSeq(text, i + 1, i + Len(needle)) = needle

(***************************************************************************)
(* QueryPostDto: transformation and validation of the query string.        *)
(***************************************************************************)
PostSortField == {"createdAt", "updatedAt", "viewCount", "likeCount"}

SortOrder == {"ASC", "DESC"}

QueryFields ==
  {"page", "pageSize", "keyword", "categoryId", "authorId", "status",
   "sortBy", "sortOrder", "isTop"}

\* a numeric property after @Type(() => Number); absent keeps the class default
NumberOr(raw, default) == IF raw = None THEN default ELSE Some(ToNumber(Val(raw)))

\* transformQuery of a class whose pageSize default is 20
transformQueryDefaultTwenty(raw) ==
  [page       |-> NumberOr(raw.page, Some(Num(1))),
   pageSize   |-> NumberOr(raw.pageSize, Some(Num(20))),
   keyword    |-> raw.keyword,
   categoryId |-> NumberOr(raw.categoryId, None),
   authorId   |-> NumberOr(raw.authorId, None),
   status     |-> NumberOr(raw.status, None),
   sortBy     |-> IF raw.sortBy = None THEN Some("createdAt") ELSE raw.sortBy,
   sortOrder  |-> IF raw.sortOrder = None THEN Some("DESC") ELSE raw.sortOrder,
   isTop      |-> IF raw.isTop = None THEN None ELSE Some(ToBoolean(Val(raw.isTop)))]

\* plainToInstance(QueryPostDto, query): class defaults, then @Type conversions
transformQuery(raw) ==
  [page       |-> NumberOr(raw.page, Some(Num(1))),
   pageSize   |-> NumberOr(raw.pageSize, Some(Num(10))),
   keyword    |-> raw.keyword,
   categoryId |-> NumberOr(raw.categoryId, None),
   authorId   |-> NumberOr(raw.authorId, None),
   status     |-> NumberOr(raw.status, None),
   sortBy     |-> IF raw.sortBy = None THEN Some("createdAt") ELSE raw.sortBy,
   sortOrder  |-> IF raw.sortOrder = None THEN Some("DESC") ELSE raw.sortOrder,
   isTop      |-> IF raw.isTop = None THEN None ELSE Some(ToBoolean(Val(raw.isTop)))]

\* @IsInt
IsInt(v) == ~v.nan

\* @Min(1) of page
PageMin == 1

\* @Min(1) and @Max(100) of pageSize
PageSizeMin == 1

PageSizeMax == 100

\* @Min(0) and @Max(2) of status
StatusMin == 0

StatusMax == 2

\* pageValid with the bound off by one: page 0 passes
pageValidFromZero(v) == IsInt(v) /\ v.n >= PageMin - 1

pageValid(v) == IsInt(v) /\ v.n >= PageMin

\* pageSizeValid without @Max(100)
pageSizeValidUncapped(v) == IsInt(v) /\ v.n >= PageSizeMin

pageSizeValid(v) == IsInt(v) /\ v.n >= PageSizeMin /\ v.n <= PageSizeMax

statusValid(v) == IsInt(v) /\ v.n >= StatusMin /\ v.n <= StatusMax

\* sortByValid that also lets the field `id` through
sortByValidOrId(v) == v \in PostSortField \cup {"id"}

sortByValid(v) == v \in PostSortField

sortOrderValid(v) == v \in SortOrder

\* the properties of the transformed query whose constraints fail (@IsOptional:
\* an undefined property is not validated)
validateQuery(t) ==
  {f \in QueryFields :
     \/ f = "page" /\ (t.page # None /\ ~pageValid(Val(t.page)))
     \/ f = "pageSize" /\ (t.pageSize # None /\ ~pageSizeValid(Val(t.pageSize)))
     \/ f = "categoryId" /\ (t.categoryId # None /\ ~IsInt(Val(t.categoryId)))
     \/ f = "authorId" /\ (t.authorId # None /\ ~IsInt(Val(t.authorId)))
     \/ f = "status" /\ (t.status # None /\ ~statusValid(Val(t.status)))
     \/ f = "sortBy" /\ (t.sortBy # None /\ ~sortByValid(Val(t.sortBy)))
     \/ f = "sortOrder" /\ (t.sortOrder # None /\ ~sortOrderValid(Val(t.sortOrder)))}

\* the validated instance as the service reads it: numbers are plain integers
IntOf(o) == IF o = None THEN None ELSE Some(Val(o).n)

queryDto(t) ==
  [page       |-> IntOf(t.page),
   pageSize   |-> IntOf(t.pageSize),
   keyword    |-> t.keyword,
   categoryId |-> IntOf(t.categoryId),
   authorId   |-> IntOf(t.authorId),
   status     |-> IntOf(t.status),
   sortBy     |-> t.sortBy,
   sortOrder  |-> t.sortOrder,
   isTop      |-> t.isTop]

(***************************************************************************)
(* PostService.findAll, stage by stage.                                    *)
(***************************************************************************)
\* `const { page = 1, pageSize = 10, sortBy = 'createdAt', sortOrder = 'DESC' }`
OrDefault(o, default) == IF o = None THEN default ELSE Val(o)

\* if (keyword) filteredPosts = filteredPosts.filter(title.includes(keyword))
keywordFilter(arr, q) ==
  IF q.keyword # None /\ Val(q.keyword) # <<>>
  THEN SelectSeq(arr, LAMBDA post : Includes(post.title, Val(q.keyword)))
  ELSE arr

categoryFilter(arr, q) ==
  IF q.categoryId # None
  THEN SelectSeq(arr, LAMBDA post : post.categoryId = Val(q.categoryId))
  ELSE arr

authorFilter(arr, q) ==
  IF q.authorId # None
  THEN SelectSeq(arr, LAMBDA post : post.authorId = Val(q.authorId))
  ELSE arr

statusFilter(arr, q) ==
  IF q.status # None
  THEN SelectSeq(arr, LAMBDA post : post.status = Val(q.status))
  ELSE arr

isTopFilter(arr, q) ==
  IF q.isTop # None
  THEN SelectSeq(arr, LAMBDA post : post.isTop = Val(q.isTop))
  ELSE arr

\* applyFilters with every step filtering this.posts again instead of the
\* array the steps before it left: only the last active filter counts
applyFiltersRestarting(arr, q) ==
  IF q.isTop # None THEN isTopFilter(arr, q)
  ELSE IF q.status # None THEN statusFilter(arr, q)
  ELSE IF q.authorId # None THEN authorFilter(arr, q)
  ELSE IF q.categoryId # None THEN categoryFilter(arr, q)
  ELSE keywordFilter(arr, q)

\* the five filter steps in the order of the code
applyFilters(arr, q) ==
  isTopFilter(statusFilter(authorFilter(categoryFilter(keywordFilter(arr, q), q), q), q), q)

\* compare with the two directions exchanged
compareExchanged(a, b, sortBy, sortOrder) ==
  LET aValue == a[sortBy]
      bValue == b[sortBy]
  IN  IF sortOrder = "ASC"
      THEN (IF aValue < bValue THEN 1 ELSE IF aValue > bValue THEN -1 ELSE 0)
      ELSE (IF aValue > bValue THEN 1 ELSE IF aValue < bValue THEN -1 ELSE 0)

\* compare without the case of equal values: `aValue > bValue ? 1 : -1`
compareNeverEqual(a, b, sortBy, sortOrder) ==
  LET aValue == a[sortBy]
      bValue == b[sortBy]
  IN  IF sortOrder = "ASC"
      THEN (IF aValue > bValue THEN 1 ELSE -1)
      ELSE (IF aValue < bValue THEN 1 ELSE -1)

\* the comparator handed to Array.prototype.sort
compare(a, b, sortBy, sortOrder) ==
  LET aValue == a[sortBy]
      bValue == b[sortBy]
  IN  IF sortOrder = "ASC"
      THEN (IF aValue > bValue THEN 1 ELSE IF aValue < bValue THEN -1 ELSE 0)
      ELSE (IF aValue < bValue THEN 1 ELSE IF aValue > bValue THEN -1 ELSE 0)

\* Array.prototype.sort is a stable sort (ECMAScript 2019, every Node.js that runs
\* the framework; the deployment guide builds on node:18): an insertion sort that
\* puts an element before the first element it compares smaller than
RECURSIVE insertSorted(_, _, _, _)
insertSorted(sorted, e, sortBy, sortOrder) ==
  IF sorted = <<>> THEN <<e>>
  ELSE IF compare(e, Head(sorted), sortBy, sortOrder) < 0 THEN <<e>> \o sorted
  ELSE <<Head(sorted)>> \o insertSorted(Tail(sorted), e, sortBy, sortOrder)

RECURSIVE sort(_, _, _)
sort(arr, sortBy, sortOrder) ==
  IF arr = <<>> THEN <<>>
  ELSE insertSorted(sort(SubSeq(arr, 1, Len(arr) - 1), sortBy, sortOrder),
                    arr[Len(arr)], sortBy, sortOrder)

\* Array.prototype.slice(start, end): negative indices count from the end
slice(arr, start, end) ==
  LET len  == Len(arr)
      from == IF start < 0 THEN (IF len + start < 0 THEN 0 ELSE len + start)
              ELSE (IF start > len THEN len ELSE start)
      to   == IF end < 0 THEN (IF len + end < 0 THEN 0 ELSE len + end)
              ELSE (IF end > len THEN len ELSE end)
  IN  SubSeq(arr, from + 1, to)

\* paginate with start = page * pageSize
paginateFromPage(arr, page, pageSize) ==
  LET start == page * pageSize
      end   == start + pageSize
  IN  slice(arr, start, end)

\* paginate with a page number past the end clamped to the last page
paginateClamped(arr, page, pageSize) ==
  LET pages == IF Len(arr) = 0 THEN 1 ELSE (Len(arr) + pageSize - 1) \div pageSize
      start == ((IF page > pages THEN pages ELSE page) - 1) * pageSize
      end   == start + pageSize
  IN  slice(arr, start, end)

\* paginate with end = start + pageSize + 1: a page runs into the next one
paginateOverlapping(arr, page, pageSize) ==
  LET start == (page - 1) * pageSize
      end   == start + pageSize + 1
  IN  slice(arr, start, end)

\* start = (page - 1) * pageSize; end = start + pageSize; slice(start, end)
paginate(arr, page, pageSize) ==
  LET start == (page - 1) * pageSize
      end   == start + pageSize
  IN  slice(arr, start, end)

\* Math.floor in place of Math.ceil
MathFloorDiv(total, pageSize) ==
  IF pageSize > 0 THEN total \div pageSize
  ELSE (0 - total) \div (0 - pageSize)

\* Math.ceil(total / pageSize) for a divisor other than 0 (a divisor of 0 gives
\* Infinity or NaN; validation admits no pageSize below 1)
MathCeilDiv(total, pageSize) ==
  IF pageSize > 0 THEN 0 - ((0 - total) \div pageSize)
  ELSE 0 - (total \div (0 - pageSize))

\* new PostListResponseDto(post): Object.assign copies every field of the post
PostListResponseDto(post) == [f \in DOMAIN post |-> post[f]]

PostPageResponseDto(list, total, page, pageSize) ==
  [list       |-> list,
   total      |-> total,
   page       |-> page,
   pageSize   |-> pageSize,
   totalPages |-> MathCeilDiv(total, pageSize)]

\* sortAndPaginate with total taken from the page instead of the filtered set
sortAndPaginateCountingPage(filteredPosts, sortBy, sortOrder, page, pageSize) ==
  LET sorted == sort(filteredPosts, sortBy, sortOrder)
      paged  == paginate(sorted, page, pageSize)
  IN  [total |-> Len(paged), paginatedPosts |-> paged]

\* sortAndPaginate with the page cut out before the sort
sortAndPaginatePageFirst(filteredPosts, sortBy, sortOrder, page, pageSize) ==
  [total |-> Len(filteredPosts),
   paginatedPosts |-> sort(paginate(filteredPosts, page, pageSize), sortBy, sortOrder)]

\* sort, then count, then cut the page out
sortAndPaginate(filteredPosts, sortBy, sortOrder, page, pageSize) ==
  LET sorted == sort(filteredPosts, sortBy, sortOrder)
  IN  [total |-> Len(sorted), paginatedPosts |-> paginate(sorted, page, pageSize)]

\* the properties of PostListResponseDto marked @Exclude()
Excluded == {"content", "updatedAt"}

\* instanceToPlain that ignores the @Exclude() marks
instanceToPlainKeepingAll(entry) == entry

\* instanceToPlain of a PostListResponseDto: the @Exclude() properties are
\* left out of the plain object
instanceToPlain(entry) == [f \in DOMAIN entry \ Excluded |-> entry[f]]

\* ClassSerializerInterceptor on the PostPageResponseDto a handler returns:
\* every entry of its list is serialized by the marks of its class
ClassSerializerInterceptor(page) ==
  [page EXCEPT !.list = [k \in 1..Len(page.list) |-> instanceToPlain(page.list[k])]]

\* the value findAll returns
findAll(ps, q) ==
  LET page      == OrDefault(q.page, 1)
      pageSize  == OrDefault(q.pageSize, 10)
      sortBy    == OrDefault(q.sortBy, "createdAt")
      sortOrder == OrDefault(q.sortOrder, "DESC")
      filteredPosts == applyFilters(ps, q)
      r    == sortAndPaginate(filteredPosts, sortBy, sortOrder, page, pageSize)
      list == [i \in 1..Len(r.paginatedPosts) |->
                 PostListResponseDto(r.paginatedPosts[i])]
  IN  PostPageResponseDto(list, r.total, page, pageSize)

\* this.posts after a findAll that counts a view of every post, as findOne
\* does of one
postsViewedByFindAll(ps, q) ==
  [i \in 1..Len(ps) |-> [ps[i] EXCEPT !.viewCount = @ + 1]]

\* this.posts after a findAll that starts from `let filteredPosts = this.posts`:
\* when no filter replaces the array, sort reorders the store itself
postsSortedInPlace(ps, q) ==
  IF q.keyword # None /\ Val(q.keyword) # <<>> THEN ps
  ELSE IF q.categoryId # None \/ q.authorId # None \/ q.status # None \/ q.isTop # None
  THEN ps
  ELSE sort(ps, OrDefault(q.sortBy, "createdAt"), OrDefault(q.sortOrder, "DESC"))

\* this.posts after findAll: `[...this.posts]` is a fresh array, every filter
\* returns a fresh array, and sort works in place on that copy only
postsAfterFindAll(ps, q) == ps

(***************************************************************************)
(* CreatePostDto / UpdatePostDto and the other PostService operations.     *)
(* A post carries the fields the operations read or set; summary, tags and *)
(* coverImage are strings that are stored and never read, and content is   *)
(* an opaque text.                                                         *)
(***************************************************************************)
\* @MinLength(5) and @MaxLength(200) of title
TitleMinLength == 5

TitleMaxLength == 200

\* @Min(1) of authorId and categoryId
IdMin == 1

BodyFields == {"title", "content", "authorId", "categoryId", "status", "isTop"}

titleValid(v) == Len(v) >= TitleMinLength /\ Len(v) <= TitleMaxLength

idValid(v) == v >= IdMin

bodyStatusValid(v) == v >= StatusMin /\ v <= StatusMax

\* whitelist with forbidNonWhitelisted: a property the DTO class does not
\* declare is an error of its own
nonWhitelisted(dto) == DOMAIN dto \ BodyFields

\* the properties of a create body whose constraints fail (title, content,
\* authorId and categoryId are required; a body is a record of optional values)
validateCreate(dto) ==
  nonWhitelisted(dto) \cup
  {f \in BodyFields :
     \/ f = "title" /\ (dto.title = None \/ ~titleValid(Val(dto.title)))
     \/ f = "content" /\ dto.content = None
     \/ f = "authorId" /\ (dto.authorId = None \/ ~idValid(Val(dto.authorId)))
     \/ f = "categoryId" /\ (dto.categoryId = None \/ ~idValid(Val(dto.categoryId)))
     \/ f = "status" /\ (dto.status # None /\ ~bodyStatusValid(Val(dto.status)))}

\* validateUpdate of a pipe without whitelist and forbidNonWhitelisted: a
\* property the DTO class does not declare passes through to the service
validateUpdateKeepingUnknown(dto) ==
  {f \in BodyFields :
     \/ f = "title" /\ (dto.title # None /\ ~titleValid(Val(dto.title)))
     \/ f = "authorId" /\ (dto.authorId # None /\ ~idValid(Val(dto.authorId)))
     \/ f = "categoryId" /\ (dto.categoryId # None /\ ~idValid(Val(dto.categoryId)))
     \/ f = "status" /\ (dto.status # None /\ ~bodyStatusValid(Val(dto.status)))}

\* PartialType(CreatePostDto): the same constraints, every property optional
validateUpdate(dto) ==
  nonWhitelisted(dto) \cup
  {f \in BodyFields :
     \/ f = "title" /\ (dto.title # None /\ ~titleValid(Val(dto.title)))
     \/ f = "authorId" /\ (dto.authorId # None /\ ~idValid(Val(dto.authorId)))
     \/ f = "categoryId" /\ (dto.categoryId # None /\ ~idValid(Val(dto.categoryId)))
     \/ f = "status" /\ (dto.status # None /\ ~bodyStatusValid(Val(dto.status)))}

\* create that stamps publishedAt whatever the status
createAlwaysPublished(dto, id, t1, t2, t3) ==
  [id          |-> id,
   title       |-> Val(dto.title),
   content     |-> Val(dto.content),
   authorId    |-> Val(dto.authorId),
   categoryId  |-> Val(dto.categoryId),
   status      |-> OrDefault(dto.status, 0),
   viewCount   |-> 0,
   likeCount   |-> 0,
   isTop       |-> OrDefault(dto.isTop, FALSE),
   createdAt   |-> t1,
   updatedAt   |-> t2,
   publishedAt |-> Some(t3)]

\* the counter after `id: this.idCounter++` that steps by two
nextIdSkipping(idc) == idc + 2

\* the counter after `id: this.idCounter++`
nextId(idc) == idc + 1

\* the post that create builds; t1, t2, t3 are its three readings of the clock
create(dto, id, t1, t2, t3) ==
  [id          |-> id,
   title       |-> Val(dto.title),
   content     |-> Val(dto.content),
   authorId    |-> Val(dto.authorId),
   categoryId  |-> Val(dto.categoryId),
   status      |-> OrDefault(dto.status, 0),
   viewCount   |-> 0,
   likeCount   |-> 0,
   isTop       |-> OrDefault(dto.isTop, FALSE),
   createdAt   |-> t1,
   updatedAt   |-> t2,
   publishedAt |-> IF dto.status = Some(1) THEN Some(t3) ELSE None]

\* find with `(p) => (p.id = id)`: an assignment, true of the first post for
\* every id other than 0
findIndexAssigning(ps, id) == IF Len(ps) > 0 /\ id # 0 THEN 1 ELSE 0

\* this.posts.find((p) => p.id === id): the index of the first match, 0 if none
findIndex(ps, id) ==
  IF \E i \in 1..Len(ps) : ps[i].id = id
  THEN CHOOSE i \in 1..Len(ps) :
         ps[i].id = id /\ \A j \in 1..(i - 1) : ps[j].id # id
  ELSE 0

\* findOne without the increment
findOneNotCounting(post) == post

\* findOne on a stored post: post.viewCount++
findOne(post) == [post EXCEPT !.viewCount = @ + 1]

\* Object.assign(post, updatePostDto): the supplied properties overwrite
assign(post, dto) ==
  [f \in DOMAIN post |->
     IF f \in DOMAIN dto /\ dto[f] # None THEN Val(dto[f]) ELSE post[f]]

\* update that defaults an absent status as create does: `dto.status ?? 0`
updateDefaultingStatus(post, dto, t1, t2) ==
  LET found    == findOne(post)
      assigned == [assign(found, dto) EXCEPT !.updatedAt = t1,
                                             !.status = OrDefault(dto.status, 0)]
  IN  IF dto.status = Some(1) /\ assigned.publishedAt = None
      THEN [assigned EXCEPT !.publishedAt = Some(t2)]
      ELSE assigned

\* update without `&& !post.publishedAt`: every update to status 1 stamps anew
updateRestamping(post, dto, t1, t2) ==
  LET found    == findOne(post)
      assigned == [assign(found, dto) EXCEPT !.updatedAt = t1]
  IN  IF dto.status = Some(1)
      THEN [assigned EXCEPT !.publishedAt = Some(t2)]
      ELSE assigned

\* update without the publishedAt block
updateNotStamping(post, dto, t1, t2) ==
  [assign(findOne(post), dto) EXCEPT !.updatedAt = t1]

\* update on a stored post; t1 and t2 are its readings of the clock
update(post, dto, t1, t2) ==
  LET found    == findOne(post)
      assigned == [assign(found, dto) EXCEPT !.updatedAt = t1]
  IN  IF dto.status = Some(1) /\ assigned.publishedAt = None
      THEN [assigned EXCEPT !.publishedAt = Some(t2)]
      ELSE assigned

\* the status remove sets: 2 is "withdrawn"
Withdrawn == 2

\* remove without `post.status = 2`
removeKeepingStatus(post, t1) == [findOne(post) EXCEPT !.updatedAt = t1]

\* remove on a stored post; t1 is its reading of the clock
remove(post, t1) ==
  [findOne(post) EXCEPT !.status = Withdrawn, !.updatedAt = t1]

\* ParseIntPipe on the :id path parameter: the integer, or nothing (400)
ParseIntPipe(s) == IF IsIntSyntax(s) THEN Some(IntValue(s)) ELSE None

TotalViews(ps) ==
  LET RECURSIVE Sum(_)
      Sum(i) == IF i = 0 THEN 0 ELSE ps[i].viewCount + Sum(i - 1)
  IN  Sum(Len(ps))

(***************************************************************************)
(* Requests the model sends.                                               *)
(***************************************************************************)
Nestjs == <<"n", "e", "s", "t", "j", "s">>

Redis == <<"r", "e", "d", "i", "s">>

Body(title, authorId, categoryId, status, isTop) ==
  [title |-> title, content |-> Some("text"), authorId |-> authorId,
   categoryId |-> categoryId, status |-> status, isTop |-> isTop]

CreateBodies ==
  {Body(Some(Nestjs), Some(1), Some(1), None, None),
   Body(Some(Nestjs), Some(2), Some(1), Some(1), Some(TRUE)),
   Body(Some(Redis), Some(1), Some(2), Some(1), Some(FALSE)),
   Body(Some(Redis), Some(1), Some(1), Some(3), None)}

\* a body that also carries an `id` property
WithId(dto, id) ==
  [f \in DOMAIN dto \cup {"id"} |-> IF f = "id" THEN Some(id) ELSE dto[f]]

UpdateBodies ==
  {Body(None, None, None, Some(1), None),
   Body(None, None, None, Some(0), Some(TRUE)),
   Body(Some(Redis), None, Some(2), None, None),
   Body(None, Some(0), None, None, None),
   WithId(Body(None, None, None, None, None), 1)}

IdParams == {<<"1">>, <<"2">>, <<"3">>, <<"4">>, <<"x">>}

Filters(keyword, categoryId, authorId, status, isTop) ==
  [keyword |-> keyword, categoryId |-> categoryId, authorId |-> authorId,
   status |-> status, isTop |-> isTop]

Query(page, pageSize, sortBy, sortOrder, f) ==
  [page |-> page, pageSize |-> pageSize, keyword |-> f.keyword,
   categoryId |-> f.categoryId, authorId |-> f.authorId, status |-> f.status,
   sortBy |-> sortBy, sortOrder |-> sortOrder, isTop |-> f.isTop]

NoFilters == Filters(None, None, None, None, None)

\* the query-string value of ?isTop=false
FalseText == <<"f", "a", "l", "s", "e">>

FilterSamples ==
  {NoFilters,
   Filters(Some(<<"e", "s", "t">>), None, None, Some(<<"1">>), None),
   Filters(None, Some(<<"1">>), Some(<<"1">>), None, None),
   Filters(Some(<<>>), None, Some(<<"1">>), None, Some(<<>>)),
   Filters(None, None, None, Some(<<"0">>), None),
   Filters(None, None, None, None, Some(FalseText))}

Paging(page, pageSize) == [page |-> page, pageSize |-> pageSize]

Sorting(sortBy, sortOrder) == [sortBy |-> sortBy, sortOrder |-> sortOrder]

QueryOf(p, s, f) == Query(p.page, p.pageSize, s.sortBy, s.sortOrder, f)

PagingSamples ==
  {Paging(None, None), Paging(None, Some(<<"1">>)), Paging(None, Some(<<"2">>)),
   Paging(Some(<<"2">>), Some(<<"1">>)), Paging(Some(<<"2">>), Some(<<"2">>)),
   Paging(Some(<<"3">>), Some(<<"1">>)), Paging(Some(<<"2">>), None)}

SortingSamples ==
  {Sorting(None, None), Sorting(Some("viewCount"), None),
   Sorting(Some("viewCount"), Some("ASC")), Sorting(Some("likeCount"), Some("ASC")),
   Sorting(Some("updatedAt"), Some("ASC"))}

\* queries that pass validation: every paging under two sortings, every sorting
\* under two pagings, every filter sample under two pagings and two sortings
ValidQueries ==
  {QueryOf(p, s, NoFilters) :
     p \in PagingSamples,
     s \in {Sorting(None, None), Sorting(Some("viewCount"), Some("ASC"))}}
  \cup
  {QueryOf(p, s, NoFilters) :
     p \in {Paging(None, None), Paging(None, Some(<<"1">>))},
     s \in SortingSamples}
  \cup
  {QueryOf(p, s, f) :
     p \in {Paging(None, None), Paging(Some(<<"2">>), Some(<<"1">>))},
     s \in {Sorting(None, None), Sorting(Some("viewCount"), None)},
     f \in FilterSamples}

\* queries that validation rejects
InvalidQueries ==
  {Query(Some(<<"0">>), None, None, None, NoFilters),
   Query(Some(<<"-", "1">>), Some(<<"2">>), None, None, NoFilters),
   Query(Some(<<"x">>), None, None, None, NoFilters),
   Query(None, Some(<<"0">>), None, None, NoFilters),
   Query(Some(<<"2">>), Some(<<"-", "1">>), Some("viewCount"), None, NoFilters),
   Query(Some(<<>>), Some(<<"0">>), None, None, NoFilters),
   Query(None, Some(<<"1", "0", "1">>), None, None, NoFilters),
   Query(None, None, Some("id"), None, NoFilters),
   Query(None, None, None, Some("asc"), NoFilters),
   Query(None, None, None, None, Filters(None, None, None, Some(<<"3">>), None))}

Queries == ValidQueries \cup InvalidQueries

LifecycleQueries ==
  {Query(None, None, None, None, NoFilters),
   Query(Some(<<"0">>), None, None, None, NoFilters)}

\* posts created in the query-engine specification
MaxQueryPosts == 3
\* sum of all viewCount values in the query-engine specification
MaxQueryViews == 1

QueryBodies ==
  {Body(Some(Nestjs), Some(1), Some(1), None, None),
   Body(Some(Nestjs), Some(2), Some(1), Some(1), Some(TRUE)),
   Body(Some(Redis), Some(1), Some(2), Some(1), Some(FALSE))}

QueryIdParams == {<<"1">>, <<"2">>, <<"3">>}

BadRequest(fields) == [error |-> "BadRequest", fields |-> fields]

NotFound(id) == [error |-> "NotFound", id |-> id]

\* the clock readings a handler can make from time t on
Times(t) == t..MaxTime

(***************************************************************************)
(* The handlers of PostController.                                         *)
(***************************************************************************)
\* concurrent callers of getUser
Getters == {"g1", "g2"}

\* concurrent callers of isAllowed
Callers == {"c1", "c2", "c3", "c4"}

\* no service call is in progress
InitLoop == stack = None

\* an empty cache in front of a database that holds version 0 of the user
InitCache ==
  /\ cache = None
  /\ db = 0
  /\ getUser = [g \in Getters |-> [pc |-> "idle", user |-> None, after |-> 0]]
  /\ updateUser = [pc |-> "idle", done |-> 0]

\* no counter key (value 0), none ever created, no call of isAllowed under way
InitLimiter ==
  /\ redis = [value |-> 0, ttl |-> None, born |-> 0]
  /\ isAllowed = [c \in Callers |-> [pc |-> "idle", current |-> 0, round |-> 0,
                                     ret |-> None]]

Init ==
  /\ posts = <<>>
  /\ idCounter = 1
  /\ now = 0
  /\ last = [op |-> "none", req |-> None, code |-> 0, ret |-> None]
  /\ InitLoop
  /\ InitCache
  /\ InitLimiter

\* time passes between requests
Tick ==
  /\ now < MaxTime
  /\ now' = now + 1
  /\ UNCHANGED <<posts, idCounter, last>>
  /\ UNCHANGED <<stack, cacheVars, limiterVars>>

\* POST /post
Create(bodies, maxPosts) ==
  /\ UNCHANGED <<stack, cacheVars, limiterVars>>
  /\ \E dto \in bodies :
       LET errors == validateCreate(dto)
       IN  IF errors # {}
           THEN /\ last' = [op |-> "create", req |-> dto, code |-> 400,
                            ret |-> BadRequest(errors)]
                /\ UNCHANGED <<posts, idCounter, now>>
           ELSE /\ Len(posts) < maxPosts
                /\ \E t2 \in Times(now) : \E t3 \in Times(t2) :
                     LET post == create(dto, idCounter, now, t2, t3)
                     IN  /\ posts' = Append(posts, post)
                         /\ idCounter' = nextId(idCounter)
                         /\ now' = (IF dto.status = Some(1) THEN t3 ELSE t2)
                         /\ last' = [op |-> "create", req |-> dto, code |-> 201,
                                     ret |-> post]

\* GET /post/:id
FindOne(params, maxViews) ==
  /\ UNCHANGED <<stack, cacheVars, limiterVars>>
  /\ \E param \in params :
       LET id == ParseIntPipe(param)
           i  == IF id = None THEN 0 ELSE findIndex(posts, Val(id))
       IN  IF id = None
           THEN /\ last' = [op |-> "findOne", req |-> param, code |-> 400,
                            ret |-> BadRequest({"id"})]
                /\ UNCHANGED <<posts, idCounter, now>>
           ELSE IF i = 0
           THEN /\ last' = [op |-> "findOne", req |-> param, code |-> 404,
                            ret |-> NotFound(Val(id))]
                /\ UNCHANGED <<posts, idCounter, now>>
           ELSE /\ TotalViews(posts) < maxViews
                /\ posts' = [posts EXCEPT ![i] = findOne(@)]
                /\ last' = [op |-> "findOne", req |-> param, code |-> 200,
                            ret |-> posts'[i]]
                /\ UNCHANGED <<idCounter, now>>

\* PATCH /post/:id
Update(params, bodies, maxViews) ==
  /\ UNCHANGED <<stack, cacheVars, limiterVars>>
  /\ \E param \in params : \E dto \in bodies :
       LET id     == ParseIntPipe(param)
           errors == validateUpdate(dto)
           i      == IF id = None THEN 0 ELSE findIndex(posts, Val(id))
           req    == [id |-> param, body |-> dto]
       IN  IF id = None \/ errors # {}
           THEN /\ last' = [op |-> "update", req |-> req, code |-> 400,
                            ret |-> BadRequest(IF id = None THEN {"id"} ELSE errors)]
                /\ UNCHANGED <<posts, idCounter, now>>
           ELSE IF i = 0
           THEN /\ last' = [op |-> "update", req |-> req, code |-> 404,
                            ret |-> NotFound(Val(id))]
                /\ UNCHANGED <<posts, idCounter, now>>
           ELSE /\ TotalViews(posts) < maxViews
                /\ \E t2 \in Times(now) :
                     /\ posts' = [posts EXCEPT ![i] = update(@, dto, now, t2)]
                     /\ now' = (IF dto.status = Some(1) /\ posts[i].publishedAt = None
                                THEN t2 ELSE now)
                /\ last' = [op |-> "update", req |-> req, code |-> 200,
                            ret |-> posts'[i]]
                /\ UNCHANGED idCounter

\* DELETE /post/:id
Remove(params, maxViews) ==
  /\ UNCHANGED <<stack, cacheVars, limiterVars>>
  /\ \E param \in params :
       LET id == ParseIntPipe(param)
           i  == IF id = None THEN 0 ELSE findIndex(posts, Val(id))
       IN  IF id = None
           THEN /\ last' = [op |-> "remove", req |-> param, code |-> 400,
                            ret |-> BadRequest({"id"})]
                /\ UNCHANGED <<posts, idCounter, now>>
           ELSE IF i = 0
           THEN /\ last' = [op |-> "remove", req |-> param, code |-> 404,
                            ret |-> NotFound(Val(id))]
                /\ UNCHANGED <<posts, idCounter, now>>
           ELSE /\ TotalViews(posts) < maxViews
                /\ posts' = [posts EXCEPT ![i] = remove(@, now)]
                /\ last' = [op |-> "remove", req |-> param, code |-> 200,
                            ret |-> [message |-> "deleted"]]
                /\ UNCHANGED <<idCounter, now>>

\* GET /post
FindAll(queries) ==
  /\ UNCHANGED <<stack, cacheVars, limiterVars>>
  /\ \E raw \in queries :
       LET t      == transformQuery(raw)
           errors == validateQuery(t)
       IN  IF errors # {}
           THEN /\ last' = [op |-> "findAll", req |-> raw, code |-> 400,
                            ret |-> BadRequest(errors)]
                /\ UNCHANGED <<posts, idCounter, now>>
           ELSE /\ last' = [op |-> "findAll", req |-> raw, code |-> 200,
                            ret |-> findAll(posts, queryDto(t)),
                            sent |-> ClassSerializerInterceptor(findAll(posts, queryDto(t)))]
                /\ posts' = postsAfterFindAll(posts, queryDto(t))
                /\ UNCHANGED <<idCounter, now>>

(***************************************************************************)
(* The post lifecycle: every handler, a few queries.                       *)
(***************************************************************************)
Next ==
  \/ Tick
  \/ Create(CreateBodies, MaxPosts)
  \/ FindOne(IdParams, MaxViews)
  \/ Update(IdParams, UpdateBodies, MaxViews)
  \/ Remove(IdParams, MaxViews)
  \/ FindAll(LifecycleQueries)

Spec == Init /\ [][Next]_vars

(***************************************************************************)
(* The query engine: stores of up to MaxQueryPosts posts, many queries.    *)
(***************************************************************************)
NextQuery ==
  \/ Tick
  \/ Create(QueryBodies, MaxQueryPosts)
  \/ FindOne(QueryIdParams, MaxQueryViews)
  \/ FindAll(Queries)

SpecQuery == Init /\ [][NextQuery]_vars

(***************************************************************************)
(* What a state shows of the last request.                                 *)
(***************************************************************************)
\* the last request was a list query that returned a page
IsPage == last.op = "findAll" /\ last.code = 200

\* the last request was a list query that validation rejected
IsRejectedQuery == last.op = "findAll" /\ last.code = 400

\* the query of the last list request, as converted from the query string
LastTransformed == transformQuery(last.req)

\* the query of the last list request, as the service read it
LastQuery == queryDto(LastTransformed)

LastPage == OrDefault(LastQuery.page, 1)

LastPageSize == OrDefault(LastQuery.pageSize, 10)

LastSortBy == OrDefault(LastQuery.sortBy, "createdAt")

LastSortOrder == OrDefault(LastQuery.sortOrder, "DESC")

\* the filters of a query that are active
KeywordActive(q) == q.keyword # None /\ Val(q.keyword) # <<>>

ActiveFilters(q) ==
  {f \in {"keyword", "categoryId", "authorId", "status", "isTop"} :
     IF f = "keyword" THEN KeywordActive(q) ELSE q[f] # None}

\* post satisfies the predicate of filter f
SatisfiesFilter(post, q, f) ==
  IF f = "keyword" THEN Includes(post.title, Val(q.keyword))
  ELSE post[f] = Val(q[f])

SatisfiesAll(post, q) == \A f \in ActiveFilters(q) : SatisfiesFilter(post, q, f)

\* positions in the store of the posts that satisfy every active filter
Matching(q) == {i \in 1..Len(posts) : SatisfiesAll(posts[i], q)}

\* x comes strictly before y in the requested order
StrictlyBefore(x, y) ==
  IF LastSortOrder = "ASC" THEN x[LastSortBy] < y[LastSortBy]
  ELSE x[LastSortBy] > y[LastSortBy]

SameKey(x, y) == x[LastSortBy] = y[LastSortBy]

Minimum(a, b) == IF a < b THEN a ELSE b

Maximum(a, b) == IF a > b THEN a ELSE b

\* the page the same query returns for another page number and page size
OtherPage(page, pageSize) ==
  findAll(posts, [LastQuery EXCEPT !.page = Some(page), !.pageSize = Some(pageSize)])

(***************************************************************************)
(* C1: a record is in the returned list, or counted in total, only if it   *)
(* satisfies every active filter (keyword, categoryId, authorId, status,   *)
(* isTop): every listed entry is a stored post that satisfies all of them, *)
(* and total counts no more than the stored posts that do.                 *)
(***************************************************************************)
C1_ConjunctiveFiltering ==
  IsPage =>
    /\ \A k \in 1..Len(last.ret.list) :
         \E i \in Matching(LastQuery) : posts[i].id = last.ret.list[k].id
    /\ last.ret.total <= Cardinality(Matching(LastQuery))

\* two filters are active, a post is listed, and another stored post passes one
\* of the two filters and fails the other
C1_Witness ==
  /\ IsPage
  /\ Cardinality(ActiveFilters(LastQuery)) >= 2
  /\ Len(last.ret.list) >= 1
  /\ \E i \in 1..Len(posts) : \E f, g \in ActiveFilters(LastQuery) :
       /\ SatisfiesFilter(posts[i], LastQuery, f)
       /\ ~SatisfiesFilter(posts[i], LastQuery, g)

(***************************************************************************)
(* C2: total is exactly the number of stored posts that satisfy all active *)
(* filters; it never exceeds the size of the store, and the same store and *)
(* filters give the same total for every page and pageSize.                *)
(***************************************************************************)
C2_TotalIsFilteredCount ==
  IsPage =>
    /\ last.ret.total = Cardinality(Matching(LastQuery))
    /\ last.ret.total <= Len(posts)
    /\ \A page \in 1..(Len(posts) + 1) : \A pageSize \in 1..(Len(posts) + 1) :
         OtherPage(page, pageSize).total = last.ret.total

\* a filter leaves some posts out and the page holds fewer posts than total
C2_Witness ==
  /\ IsPage
  /\ ActiveFilters(LastQuery) # {}
  /\ last.ret.total < Len(posts)
  /\ Len(last.ret.list) < last.ret.total

(***************************************************************************)
(* C3: the number of returned entries is                                   *)
(* min(pageSize, max(0, total - (page-1)*pageSize)): never more than       *)
(* pageSize, and pageSize unless fewer filtered posts remain for the page. *)
(***************************************************************************)
C3_PageLength ==
  IsPage =>
    Len(last.ret.list) =
      Minimum(LastPageSize,
              Maximum(0, last.ret.total - (LastPage - 1) * LastPageSize))

\* a last page that is only partly filled
C3_Witness ==
  /\ IsPage
  /\ LastPage >= 2
  /\ Len(last.ret.list) >= 1
  /\ Len(last.ret.list) < LastPageSize

(***************************************************************************)
(* C4: the page is cut out of the sorted filtered set: the entry at        *)
(* position k of the list is a stored matching post that holds position    *)
(* (page-1)*pageSize + k of the requested order (fewer matching posts than *)
(* that sort strictly before it, and at least that many do not sort        *)
(* strictly after it), so no post of a later page sorts strictly before a  *)
(* post of an earlier page.                                                *)
(***************************************************************************)
C4_SortBeforePaginate ==
  IsPage =>
    LET start == (LastPage - 1) * LastPageSize
        M     == Matching(LastQuery)
    IN  /\ \A k \in 1..Len(last.ret.list) :
             LET x == last.ret.list[k]
             IN  /\ \E i \in M : posts[i] = x
                 /\ Cardinality({i \in M : StrictlyBefore(posts[i], x)}) < start + k
                 /\ Cardinality({i \in M : ~StrictlyBefore(x, posts[i])}) >= start + k
        /\ \A j, k \in 1..Len(last.ret.list) :
             j # k => last.ret.list[j].id # last.ret.list[k].id
        /\ \A page \in (LastPage + 1)..(Len(posts) + 1) :
             LET later == OtherPage(page, LastPageSize).list
             IN  \A j \in 1..Len(later) : \A k \in 1..Len(last.ret.list) :
                   ~StrictlyBefore(later[j], last.ret.list[k])

\* page 2 shows a post that was stored before a post of page 1
C4_Witness ==
  /\ IsPage
  /\ LastPage = 2
  /\ Len(last.ret.list) >= 1
  /\ \E j \in 1..Len(OtherPage(1, LastPageSize).list) :
       /\ OtherPage(1, LastPageSize).list[j].id > last.ret.list[1].id
       /\ StrictlyBefore(OtherPage(1, LastPageSize).list[j], last.ret.list[1])

(***************************************************************************)
(* C5: consecutive entries of the list are ordered by the sortBy field:    *)
(* with ASC each key is <= the next, with DESC (the default) each key is   *)
(* >= the next.                                                            *)
(***************************************************************************)
C5_ListOrdered ==
  IsPage =>
    \A k \in 1..(Len(last.ret.list) - 1) :
      LET x == last.ret.list[k][LastSortBy]
          y == last.ret.list[k + 1][LastSortBy]
      IN  IF LastSortOrder = "ASC" THEN x <= y ELSE x >= y

\* an ascending list whose first two keys differ
C5_Witness ==
  /\ IsPage
  /\ LastSortOrder = "ASC"
  /\ Len(last.ret.list) >= 2
  /\ last.ret.list[1][LastSortBy] < last.ret.list[2][LastSortBy]

(***************************************************************************)
(* C6: the sort is stable: two posts with equal values of the sort field   *)
(* appear in the order in which they are stored, within the list and       *)
(* across the pages of the query, for ASC and for DESC.                    *)
(***************************************************************************)
C6_StableSort ==
  IsPage =>
    /\ \A j, k \in 1..Len(last.ret.list) :
         (j < k /\ SameKey(last.ret.list[j], last.ret.list[k]))
           => findIndex(posts, last.ret.list[j].id) < findIndex(posts, last.ret.list[k].id)
    /\ \A page \in (LastPage + 1)..(Len(posts) + 1) :
         LET later == OtherPage(page, LastPageSize).list
         IN  \A j \in 1..Len(later) : \A k \in 1..Len(last.ret.list) :
               SameKey(later[j], last.ret.list[k])
                 => findIndex(posts, last.ret.list[k].id) < findIndex(posts, later[j].id)

\* a descending list with two equal keys next to a different one
C6_Witness ==
  /\ IsPage
  /\ LastSortOrder = "DESC"
  /\ Len(last.ret.list) >= 3
  /\ \E j, k \in 1..Len(last.ret.list) :
       j < k /\ SameKey(last.ret.list[j], last.ret.list[k])
  /\ \E j, k \in 1..Len(last.ret.list) :
       ~SameKey(last.ret.list[j], last.ret.list[k])

(***************************************************************************)
(* C7: a page number greater than totalPages (all matching posts fit on    *)
(* the pages before it) raises no error: the list is empty and total still *)
(* is the number of posts that match the filters.                          *)
(***************************************************************************)
C7_PageBeyondLast ==
  (/\ last.op = "findAll"
   /\ validateQuery(LastTransformed) = {}
   /\ (LastPage - 1) * LastPageSize >= Cardinality(Matching(LastQuery)))
    => /\ last.code = 200
       /\ last.ret.list = <<>>
       /\ last.ret.total = Cardinality(Matching(LastQuery))

\* a page beyond the last one of a query that matches posts
C7_Witness ==
  /\ IsPage
  /\ last.ret.total >= 1
  /\ LastPage > last.ret.totalPages

(***************************************************************************)
(* C8: totalPages is ceil(total / pageSize), the least number of pages of  *)
(* pageSize posts that hold total posts, and it is 0 exactly when total    *)
(* is 0.                                                                   *)
(***************************************************************************)
C8_TotalPages ==
  IsPage =>
    /\ last.ret.totalPages * last.ret.pageSize >= last.ret.total
    /\ (last.ret.totalPages - 1) * last.ret.pageSize < last.ret.total
    /\ (last.ret.totalPages = 0) <=> (last.ret.total = 0)

\* a total that pageSize does not divide
C8_Witness ==
  /\ IsPage
  /\ last.ret.pageSize = 2
  /\ last.ret.total = 3
  /\ last.ret.totalPages = 2

(***************************************************************************)
(* C9: a list query leaves the store as it was: the same posts in the same *)
(* order with the same field values, and the same id counter.              *)
(***************************************************************************)
C9_FindAllKeepsStore ==
  [][last'.op = "findAll" => (posts' = posts /\ idCounter' = idCounter)]_vars

\* an unfiltered query that lists the stored posts in another order than the
\* store holds them
C9_Witness ==
  /\ IsPage
  /\ ActiveFilters(LastQuery) = {}
  /\ Len(last.ret.list) = Len(posts)
  /\ \E k \in 1..Len(posts) : last.ret.list[k].id # posts[k].id
  /\ \E k \in 1..Len(posts) : posts[k].viewCount > 0

(***************************************************************************)
(* C10: a list query with page < 1 or pageSize < 1 fails with a            *)
(* bad-request error that names the field out of range; no page is         *)
(* returned for it, clamped or otherwise.                                  *)
(***************************************************************************)
BelowOne(o) == o # None /\ ~Val(o).nan /\ Val(o).n < 1

C10_OutOfRangeRejected ==
  last.op = "findAll" =>
    /\ BelowOne(LastTransformed.page)
         => (IsRejectedQuery /\ "page" \in last.ret.fields)
    /\ BelowOne(LastTransformed.pageSize)
         => (IsRejectedQuery /\ "pageSize" \in last.ret.fields)
    /\ IsPage => (last.ret.page >= 1 /\ last.ret.pageSize >= 1)

\* a query with page 0 and pageSize 0, rejected for both
C10_Witness ==
  /\ IsRejectedQuery
  /\ BelowOne(LastTransformed.page)
  /\ BelowOne(LastTransformed.pageSize)
  /\ last.ret.fields = {"page", "pageSize"}
  /\ Len(posts) >= 1

(***************************************************************************)
(* What a state shows of the last request by id.                           *)
(***************************************************************************)
\* this step answers a request: the record of the last request changes (two
\* answers to the same kind of request with the same code have the same shape)
Answered ==
  IF last'.op = last.op /\ last'.code = last.code THEN last' # last ELSE TRUE

IsByIdRequest == last.op \in {"findOne", "update", "remove"}

\* the :id path parameter of the last request by id
LastIdParam == IF last.op = "update" THEN last.req.id ELSE last.req

\* the request passed its pipes: the id is an integer and the body is valid
LastPipesPassed ==
  /\ ParseIntPipe(LastIdParam) # None
  /\ last.op = "update" => validateUpdate(last.req.body) = {}

LastId == Val(ParseIntPipe(LastIdParam))

\* the position in the store of the post with the given id, 0 if there is none
PositionOf(id) ==
  IF \E i \in 1..Len(posts) : posts[i].id = id
  THEN CHOOSE i \in 1..Len(posts) : posts[i].id = id
  ELSE 0

(***************************************************************************)
(* C11: lookup, update and delete by an id that no stored post has fail    *)
(* with NotFound (404), and a request that fails so leaves the store as it *)
(* was: no post added, removed or changed, the id counter unchanged.       *)
(***************************************************************************)
C11_NotFoundKeepsStore ==
  /\ []((IsByIdRequest /\ LastPipesPassed /\ PositionOf(LastId) = 0)
          => (last.code = 404 /\ last.ret = NotFound(LastId)))
  /\ [][last'.code = 404 => (posts' = posts /\ idCounter' = idCounter)]_vars

\* an update of an id that is not stored, answered 404, while a post is stored
C11_Witness ==
  /\ last.op = "update"
  /\ last.code = 404
  /\ Len(posts) >= 1
  /\ PositionOf(LastId) = 0

\* the fields of a stored post
PostFields ==
  {"id", "title", "content", "authorId", "categoryId", "status", "isTop",
   "viewCount", "likeCount", "createdAt", "updatedAt", "publishedAt"}

(***************************************************************************)
(* C12: each successful GET /post/:id raises the viewCount of the post     *)
(* with that id by exactly 1, leaves every other post and every other      *)
(* field as it was, and returns the full post with the raised viewCount.   *)
(***************************************************************************)
C12_FindOneCountsOneView ==
  [][(Answered /\ last'.op = "findOne" /\ last'.code = 200)
       => LET id == Val(ParseIntPipe(last'.req))
              i  == PositionOf(id)
          IN  /\ i # 0
              /\ Len(posts') = Len(posts)
              /\ posts'[i].id = id
              /\ posts'[i].viewCount = posts[i].viewCount + 1
              /\ \A f \in PostFields \ {"viewCount"} : posts'[i][f] = posts[i][f]
              /\ \A j \in 1..Len(posts) : j # i => posts'[j] = posts[j]
              /\ idCounter' = idCounter
              /\ DOMAIN last'.ret = PostFields
              /\ last'.ret = posts'[i]]_vars

\* the second of two posts has been looked up and shows its first view
C12_Witness ==
  /\ last.op = "findOne"
  /\ last.code = 200
  /\ Len(posts) = 2
  /\ last.ret.id = 2
  /\ last.ret.viewCount = 1
  /\ posts[1].viewCount = 0

\* GET /post?pageSize=100 with at most a status filter: the ids it lists
ListedIds(status) ==
  LET raw  == Query(None, Some(<<"1", "0", "0">>), None, None,
                    Filters(None, None, None, status, None))
      page == findAll(posts, queryDto(transformQuery(raw)))
  IN  {page.list[k].id : k \in 1..Len(page.list)}

(***************************************************************************)
(* C13: DELETE /post/:id is a soft delete.  After it the post is still     *)
(* stored and still found by its id, with status 2; a listing without a    *)
(* status filter and a listing with status=2 show it, a listing with       *)
(* status=0 or status=1 does not.                                          *)
(***************************************************************************)
C13_RemoveIsSoftDelete ==
  (last.op = "remove" /\ last.code = 200)
    => LET id == Val(ParseIntPipe(last.req))
           i  == findIndex(posts, id)
       IN  /\ i # 0
           /\ posts[i].id = id
           /\ posts[i].status = Withdrawn
           /\ id \in ListedIds(None)
           /\ id \in ListedIds(Some(<<"2">>))
           /\ id \notin ListedIds(Some(<<"0">>))
           /\ id \notin ListedIds(Some(<<"1">>))

\* a published post has been removed while another post stays published
C13_Witness ==
  /\ last.op = "remove"
  /\ last.code = 200
  /\ Len(posts) = 2
  /\ last.req = <<"2">>
  /\ posts[2].publishedAt # None
  /\ ListedIds(Some(<<"1">>)) = {1}

C15_IdsUniqueAndIncreasing ==
  /\ [](/\ \A i, j \in 1..Len(posts) : i < j => posts[i].id < posts[j].id
        /\ \A i \in 1..Len(posts) : posts[i].id < idCounter)
  /\ [][/\ idCounter' >= idCounter
        /\ Len(posts') >= Len(posts)
        /\ \A i \in 1..Len(posts) : posts'[i].id = posts[i].id
        /\ \A i \in (Len(posts) + 1)..Len(posts') : posts'[i].id >= idCounter]_vars

\* two posts are stored and an update that tried to set an id was turned away
C15_Witness ==
  /\ Len(posts) = 2
  /\ last.op = "update"
  /\ last.code = 400
  /\ "id" \in DOMAIN last.req.body
  /\ ParseIntPipe(last.req.id) = Some(2)
  /\ last.ret = BadRequest({"id"})

\* a QueryPostDto as PostService.findAll receives it when no pipe has run:
\* only pageSize set
DirectQuery(pageSize) ==
  [page |-> None, pageSize |-> Some(pageSize), keyword |-> None,
   categoryId |-> None, authorId |-> None, status |-> None,
   sortBy |-> None, sortOrder |-> None, isTop |-> None]

PageSizeAbove(o, n) == o # None /\ ~Val(o).nan /\ Val(o).n > n

(***************************************************************************)
(* C16 as the specification states it, for the part about findAll itself:  *)
(* when no validation layer runs before it, PostService.findAll does not   *)
(* honour a pageSize above 100.  Here: called on a store that holds posts  *)
(* with pageSize 101, the page it returns does not have pageSize 101.      *)
(***************************************************************************)
C16_ServiceEnforcesCap ==
  Len(posts) >= 1 => findAll(posts, DirectQuery(101)).pageSize <= 100

(***************************************************************************)
(* C16: no GET /post returns more than 100 posts: a pageSize above 100 is  *)
(* rejected with a bad-request error naming pageSize, and every page       *)
(* returned has a pageSize of at most 100 and at most 100 entries.  The    *)
(* cap is the validation of QueryPostDto ahead of the controller.          *)
(***************************************************************************)
C16_PageSizeCapAtRequest ==
  last.op = "findAll" =>
    /\ PageSizeAbove(LastTransformed.pageSize, 100)
         => (IsRejectedQuery /\ "pageSize" \in last.ret.fields)
    /\ IsPage => (last.ret.pageSize <= 100 /\ Len(last.ret.list) <= 100)

\* pageSize=101 has been rejected while posts are stored
C16_Witness ==
  /\ IsRejectedQuery
  /\ PageSizeAbove(LastTransformed.pageSize, 100)
  /\ last.ret = BadRequest({"pageSize"})
  /\ Len(posts) >= 2

(***************************************************************************)
(* C17: a list query whose sortBy is not one of createdAt, updatedAt,      *)
(* viewCount, likeCount fails with a bad-request error naming sortBy, and  *)
(* every page returned is ordered by one of these four fields.             *)
(***************************************************************************)
C17_SortFieldEnumerated ==
  last.op = "findAll" =>
    /\ (last.req.sortBy # None
          /\ Val(last.req.sortBy)
               \notin {"createdAt", "updatedAt", "viewCount", "likeCount"})
         => (IsRejectedQuery /\ "sortBy" \in last.ret.fields)
    /\ IsPage => LastSortBy \in {"createdAt", "updatedAt", "viewCount", "likeCount"}

\* sortBy=id has been rejected while posts are stored
C17_Witness ==
  /\ IsRejectedQuery
  /\ last.req.sortBy = Some("id")
  /\ last.ret = BadRequest({"sortBy"})
  /\ Len(posts) >= 2

\* the stored posts that satisfy the active filters of q other than isTop
MatchingBesidesIsTop(q) ==
  {i \in 1..Len(posts) :
     \A f \in ActiveFilters(q) \ {"isTop"} : SatisfiesFilter(posts[i], q, f)}

\* no filter parameter is in the request
NoFilterSent ==
  /\ last.req.keyword = None /\ last.req.categoryId = None
  /\ last.req.authorId = None /\ last.req.status = None /\ last.req.isTop = None

(***************************************************************************)
(* C18: a filter absent from the query is skipped and a filter that is     *)
(* present is applied even when its value is falsy: GET /post?isTop=false  *)
(* keeps exactly the posts with isTop false (among those the other filters *)
(* keep), ?status=0 keeps only posts with status 0, and a query without    *)
(* filters counts every stored post.                                       *)
(***************************************************************************)
C18_FalsyFiltersApplied ==
  IsPage =>
    /\ last.req.isTop = Some(FalseText)
         => /\ \A k \in 1..Len(last.ret.list) : last.ret.list[k].isTop = FALSE
            /\ last.ret.total =
                 Cardinality({i \in MatchingBesidesIsTop(LastQuery) :
                                posts[i].isTop = FALSE})
    /\ last.req.status = Some(<<"0">>)
         => \A k \in 1..Len(last.ret.list) : last.ret.list[k].status = 0
    /\ NoFilterSent => last.ret.total = Len(posts)

\* the last request with page=1, pageSize=10, sortBy=createdAt and
\* sortOrder=DESC written out, its filters kept
LastRequestSpelledOut ==
  [last.req EXCEPT !.page = Some(<<"1">>), !.pageSize = Some(<<"1", "0">>),
                   !.sortBy = Some("createdAt"), !.sortOrder = Some("DESC")]

\* the last request names none of page, pageSize, sortBy, sortOrder
NoPagingOrSortingSent ==
  /\ last.req.page = None /\ last.req.pageSize = None
  /\ last.req.sortBy = None /\ last.req.sortOrder = None

(***************************************************************************)
(* C19: a list query that supplies no page, pageSize, sortBy or sortOrder  *)
(* returns what the query page=1, pageSize=10, sortBy=createdAt,           *)
(* sortOrder=DESC with the same filters returns, and its result echoes     *)
(* page 1 and pageSize 10.                                                 *)
(***************************************************************************)
C19_DefaultsSpelledOut ==
  (IsPage /\ NoPagingOrSortingSent)
    => /\ validateQuery(transformQuery(LastRequestSpelledOut)) = {}
       /\ last.ret = findAll(posts, queryDto(transformQuery(LastRequestSpelledOut)))
       /\ last.ret.page = 1
       /\ last.ret.pageSize = 10

\* a query without paging and sorting has listed three posts created at two
\* different times, the newest first
C19_Witness ==
  /\ IsPage
  /\ NoPagingOrSortingSent
  /\ Len(last.ret.list) = 3
  /\ last.ret.list[1].createdAt > last.ret.list[3].createdAt

C22_CreateAppendsFreshPost ==
  [][(Answered /\ last'.op = "create" /\ last'.code = 201)
       => LET dto  == last'.req
              post == posts'[Len(posts')]
          IN  /\ Len(posts') = Len(posts) + 1
              /\ \A i \in 1..Len(posts) : posts'[i] = posts[i]
              /\ post.viewCount = 0
              /\ post.likeCount = 0
              /\ post.status = (IF dto.status = None THEN 0 ELSE Val(dto.status))
              /\ post.isTop = (IF dto.isTop = None THEN FALSE ELSE Val(dto.isTop))
              /\ (post.publishedAt # None) <=> (dto.status = Some(1))
              /\ last'.ret = post]_vars

\* a draft created without status and isTop, behind a published post
C22_Witness ==
  /\ last.op = "create"
  /\ last.code = 201
  /\ last.req.status = None
  /\ last.req.isTop = None
  /\ Len(posts) = 2
  /\ posts[1].publishedAt # None
  /\ posts[2].publishedAt = None
  /\ posts[2].status = 0

(***************************************************************************)
(* C23: a successful PATCH /post/:id with status 1 gives the post a        *)
(* publishedAt when it has none, and a publishedAt that is set is never    *)
(* changed again, by an update or by anything else: the first publication  *)
(* time survives later updates, withdrawals and re-publications.           *)
(***************************************************************************)
C23_FirstPublicationTimeKept ==
  [][\A i \in 1..Len(posts) :
       /\ posts[i].publishedAt # None
            => (Len(posts') >= i /\ posts'[i].publishedAt = posts[i].publishedAt)
       /\ (/\ Answered /\ last'.op = "update" /\ last'.code = 200
           /\ ParseIntPipe(last'.req.id) = Some(posts[i].id)
           /\ last'.req.body.status = Some(1)
           /\ posts[i].publishedAt = None)
            => posts'[i].publishedAt # None]_vars

\* a post first published at time 0 has been updated to status 1 at time 1
\* and keeps time 0
C23_Witness ==
  /\ last.op = "update"
  /\ last.code = 200
  /\ last.req.body.status = Some(1)
  /\ last.ret.publishedAt = Some(0)
  /\ last.ret.updatedAt = 1
  /\ last.ret.status = 1

(***************************************************************************)
(* C27: in every state of the store every post with status 1 has a         *)
(* publishedAt, whatever creates, updates and removes led to it.           *)
(***************************************************************************)
C27_PublishedHasTime ==
  \A i \in 1..Len(posts) : posts[i].status = 1 => posts[i].publishedAt # None

\* a draft has been published by an update, which stamped it
C27_Witness ==
  /\ last.op = "update"
  /\ last.code = 200
  /\ last.req.body.status = Some(1)
  /\ last.ret.status = 1
  /\ last.ret.createdAt = 0
  /\ last.ret.publishedAt = Some(1)

(***************************************************************************)
(* C26: a post's viewCount counts the successful GET /post/:id requests    *)
(* for its id: a create, a list query, an update or a remove leaves the    *)
(* viewCount of every stored post as it was.                               *)
(***************************************************************************)
C26_OnlyLookupsCountViews ==
  [][last'.op \in {"create", "findAll", "update", "remove"}
       => \A i \in 1..Len(posts) : posts'[i].viewCount = posts[i].viewCount]_vars

(***************************************************************************)
(* C28: the store never shrinks.  In every state the number of stored      *)
(* posts is idCounter - 1 and the stored ids are 1..n in insertion order;  *)
(* a successful POST /post adds one post and no other step changes the     *)
(* number, so it is the number of successful creates.                      *)
(***************************************************************************)
C28_StoreCountsCreates ==
  /\ [](/\ Len(posts) = idCounter - 1
        /\ \A i \in 1..Len(posts) : posts[i].id = i)
  /\ [][Len(posts') =
          (IF Answered /\ last'.op = "create" /\ last'.code = 201
           THEN Len(posts) + 1 ELSE Len(posts))]_vars

\* two posts are stored, the first of them removed
C28_Witness ==
  /\ Len(posts) = 2
  /\ idCounter = 3
  /\ posts[1].status = Withdrawn
  /\ last.op = "remove"
  /\ last.code = 200

(***************************************************************************)
(* C24 as the specification states it: no entry of the list that findAll   *)
(* returns has a content field or an updatedAt field holding the stored    *)
(* value.                                                                  *)
(***************************************************************************)
C24_ReturnedEntriesOmitContent ==
  IsPage =>
    \A k \in 1..Len(last.ret.list) : \A f \in Excluded :
      ~(/\ f \in DOMAIN last.ret.list[k]
        /\ last.ret.list[k][f] = posts[PositionOf(last.ret.list[k].id)][f])

(***************************************************************************)
(* C24: no entry of the list in the response of GET /post has a content or *)
(* an updatedAt property, and every other field of the entry is the stored *)
(* post's.  The properties are dropped when the response is serialized;    *)
(* the entries PostService.findAll returns still hold both.                *)
(***************************************************************************)
C24_ResponseOmitsContent ==
  IsPage =>
    /\ Len(last.sent.list) = Len(last.ret.list)
    /\ \A k \in 1..Len(last.sent.list) :
         LET entry == last.sent.list[k]
             post  == posts[PositionOf(last.ret.list[k].id)]
         IN  /\ DOMAIN entry = PostFields \ {"content", "updatedAt"}
             /\ \A f \in DOMAIN entry : entry[f] = post[f]
             /\ last.ret.list[k].content = post.content
             /\ last.ret.list[k].updatedAt = post.updatedAt
    /\ last.sent.total = last.ret.total
    /\ last.sent.totalPages = last.ret.totalPages

\* a response that lists three posts
C24_Witness ==
  /\ IsPage
  /\ Len(last.sent.list) = 3
  /\ \A k \in 1..3 : "title" \in DOMAIN last.sent.list[k]

\* the lists of pages 1..n of the last query, one after the other
PagesInOrder(n) ==
  LET RECURSIVE Concat(_)
      Concat(p) == IF p = 0 THEN <<>>
                   ELSE Concat(p - 1) \o OtherPage(p, LastPageSize).list
  IN  Concat(n)

(***************************************************************************)
(* C25: for the store, filters, sort and pageSize of a served list query,  *)
(* pages 1..totalPages partition the filtered set: their lists one after   *)
(* the other hold every matching post exactly once, in the order of the    *)
(* sort, posts with equal sort values in the order of the store.           *)
(***************************************************************************)
C25_PagesPartition ==
  IsPage =>
    LET all == PagesInOrder(last.ret.totalPages)
    IN  /\ Len(all) = Cardinality(Matching(LastQuery))
        /\ {all[k].id : k \in 1..Len(all)} = {posts[i].id : i \in Matching(LastQuery)}
        /\ \A j, k \in 1..Len(all) : j # k => all[j].id # all[k].id
        /\ \A j, k \in 1..Len(all) :
             j < k => \/ StrictlyBefore(all[j], all[k])
                      \/ /\ SameKey(all[j], all[k])
                         /\ PositionOf(all[j].id) < PositionOf(all[k].id)

\* three matching posts on more than one page, not in the order of the store
C25_Witness ==
  /\ IsPage
  /\ last.ret.total = 3
  /\ last.ret.totalPages >= 2
  /\ PagesInOrder(last.ret.totalPages)[1].id # posts[1].id

(***************************************************************************)
(* The cache-aside example of src/doc/20_redis_basics.md: getUser and      *)
(* updateUser for one user id.  Each `await` is a point where other calls  *)
(* run, so one action is the code from one await to the next.  The user's  *)
(* data is the number of the update that wrote it (0: never updated).      *)
(* getUser[g].after is the last update that had completed when the call    *)
(* began.                                                                  *)
(***************************************************************************)
\* a call of getUser begins: `await this.cache.get(...)` is sent
CallGetUser(g) ==
  /\ getUser[g].pc \in {"idle", "done"}
  /\ getUser' = [getUser EXCEPT ![g] = [pc |-> "get", user |-> None,
                                        after |-> updateUser.done]]
  /\ UNCHANGED <<cache, db, updateUser>>
  /\ UNCHANGED <<storeVars, stack, limiterVars>>

\* let user = await this.cache.get(`user:${id}`); if (!user) ... return user
CacheGet(g) ==
  /\ getUser[g].pc = "get"
  /\ getUser' = [getUser EXCEPT ![g].user = cache,
                                ![g].pc = IF cache = None THEN "findUser" ELSE "done"]
  /\ UNCHANGED <<cache, db, updateUser>>
  /\ UNCHANGED <<storeVars, stack, limiterVars>>

\* user = await this.db.findUser(id)
DbFindUser(g) ==
  /\ getUser[g].pc = "findUser"
  /\ getUser' = [getUser EXCEPT ![g].user = Some(db), ![g].pc = "set"]
  /\ UNCHANGED <<cache, db, updateUser>>
  /\ UNCHANGED <<storeVars, stack, limiterVars>>

\* await this.cache.set(`user:${id}`, user, 3600); return user
CacheSet(g) ==
  /\ getUser[g].pc = "set"
  /\ cache' = getUser[g].user
  /\ getUser' = [getUser EXCEPT ![g].pc = "done"]
  /\ UNCHANGED <<db, updateUser>>
  /\ UNCHANGED <<storeVars, stack, limiterVars>>

\* a call of updateUser: await this.db.updateUser(id, data)
DbUpdateUser ==
  /\ updateUser.pc = "idle"
  /\ db < MaxVersion
  /\ db' = db + 1
  /\ updateUser' = [updateUser EXCEPT !.pc = "del"]
  /\ UNCHANGED <<cache, getUser>>
  /\ UNCHANGED <<storeVars, stack, limiterVars>>

\* await this.cache.del(`user:${id}`); the call is complete
CacheDel ==
  /\ updateUser.pc = "del"
  /\ cache' = None
  /\ updateUser' = [pc |-> "idle", done |-> db]
  /\ UNCHANGED <<db, getUser>>
  /\ UNCHANGED <<storeVars, stack, limiterVars>>

\* the 3600 seconds of a cache entry run out
CacheExpire ==
  /\ cache # None
  /\ cache' = None
  /\ UNCHANGED <<db, getUser, updateUser>>
  /\ UNCHANGED <<storeVars, stack, limiterVars>>

NextCache ==
  \/ \E g \in Getters : CallGetUser(g)
  \/ \E g \in Getters : CacheGet(g)
  \/ \E g \in Getters : DbFindUser(g)
  \/ \E g \in Getters : CacheSet(g)
  \/ DbUpdateUser
  \/ CacheDel
  \/ CacheExpire

SpecCache == Init /\ [][NextCache]_vars

(***************************************************************************)
(* C29: in the cache-aside pattern, once an updateUser has completed,      *)
(* every getUser that begins afterwards returns the updated data, never a  *)
(* value older than that update, whatever the interleaving of the calls.   *)
(***************************************************************************)
C29_NoStaleReadAfterUpdate ==
  \A g \in Getters :
    getUser[g].pc = "done" => Val(getUser[g].user) >= getUser[g].after

(***************************************************************************)
(* The rate limiter of src/doc/20_redis_basics.md: isAllowed for one key,  *)
(* called once by each caller with the same limit and window.  Redis runs  *)
(* each command atomically; the caller's code between two awaits runs      *)
(* without interruption.  redis.value is the counter (0: the key does not  *)
(* exist), redis.ttl its expiry, redis.born the number of times the key    *)
(* has been created; isAllowed[c].round is the creation the call's INCR    *)
(* counted under.                                                          *)
(***************************************************************************)
\* return current <= limit, letting one call too many through
allowedOneMore(current) == current <= Limit + 1

\* return current <= limit
allowed(current) == current <= Limit

\* const current = await this.redis.incr(key); a call that does not read 1
\* returns at once
Incr(c) ==
  /\ isAllowed[c].pc = "idle"
  /\ LET current == redis.value + 1
         born    == IF redis.value = 0 THEN redis.born + 1 ELSE redis.born
     IN  /\ redis' = [redis EXCEPT !.value = current, !.born = born]
         /\ isAllowed' = [isAllowed EXCEPT ![c] =
              IF current = 1
              THEN [pc |-> "expire", current |-> current, round |-> born,
                    ret |-> None]
              ELSE [pc |-> "done", current |-> current, round |-> born,
                    ret |-> Some(allowed(current))]]
  /\ UNCHANGED <<storeVars, stack, cacheVars>>

\* if (current === 1) await this.redis.expire(key, window); return
Expire(c) ==
  /\ isAllowed[c].pc = "expire"
  /\ redis' = IF redis.value > 0 THEN [redis EXCEPT !.ttl = Some(Window)] ELSE redis
  /\ isAllowed' = [isAllowed EXCEPT ![c].pc = "done",
                                    ![c].ret = Some(allowed(isAllowed[c].current))]
  /\ UNCHANGED <<storeVars, stack, cacheVars>>

\* the window of a key that has an expiry runs out: Redis deletes the key
KeyExpires ==
  /\ redis.value > 0
  /\ redis.ttl # None
  /\ redis' = [redis EXCEPT !.value = 0, !.ttl = None]
  /\ UNCHANGED <<storeVars, stack, cacheVars, isAllowed>>

NextLimiter ==
  \/ \E c \in Callers : Incr(c)
  \/ \E c \in Callers : Expire(c)
  \/ KeyExpires

\* a call that awaits the reply to EXPIRE goes on when Redis has replied
SpecLimiter ==
  Init /\ [][NextLimiter]_vars /\ \A c \in Callers : WF_vars(Expire(c))

\* the calls that have returned true and counted under creation r of the key
Granted(r) ==
  {c \in Callers : isAllowed[c].pc = "done" /\ isAllowed[c].round = r
                   /\ isAllowed[c].ret = Some(TRUE)}

\* the counter key exists and has no expiry
KeyWithoutExpiry == redis.value > 0 /\ redis.ttl = None

(***************************************************************************)
(* C30: for one key and any interleaving of concurrent isAllowed calls, at *)
(* most `limit` calls return true between one creation of the counter key  *)
(* and its expiry, and every key that is created gets an expiry of         *)
(* `window` seconds: while it has none, the call that created it is about  *)
(* to set it, and it does.                                                 *)
(***************************************************************************)
C30_LimitPerWindow ==
  /\ [](\A r \in 1..redis.born : Cardinality(Granted(r)) <= Limit)
  /\ [](redis.ttl # None => (redis.value > 0 /\ redis.ttl = Some(Window)))
  /\ [](KeyWithoutExpiry
          => \E c \in Callers :
               /\ isAllowed[c].pc = "expire"
               /\ isAllowed[c].round = redis.born)
  /\ (KeyWithoutExpiry ~> ~KeyWithoutExpiry)

\* the key has been created twice and has its expiry; a call was turned down
\* under the first creation and one let through under the second
C30_Witness ==
  /\ redis.born = 2
  /\ redis.ttl = Some(Window)
  /\ \E c \in Callers : isAllowed[c].round = 1 /\ isAllowed[c].ret = Some(FALSE)
  /\ Granted(2) # {}

(***************************************************************************)
(* PostService statement by statement.  update and remove are several      *)
(* statements on the stored post; `stack` holds the call in progress: the  *)
(* request, the position of its post, the statement it is at, and the      *)
(* store as it was when the call began.  The methods are synchronous (no   *)
(* await), so Node.js runs a call to its return before it starts another   *)
(* handler; the clock goes on meanwhile.                                   *)
(***************************************************************************)
LoopBodies ==
  {Body(Some(Nestjs), Some(1), Some(1), None, None),
   Body(Some(Redis), Some(1), Some(2), Some(1), Some(FALSE))}

LoopUpdateBodies ==
  {Body(None, None, None, Some(1), None),
   Body(Some(Redis), None, Some(2), None, None)}

LoopIdParams == {<<"1">>, <<"2">>}

\* a scheduler that starts a handler while a service call is in progress
CanRunAnytime == TRUE

\* the event loop starts a handler only when no call is on the stack
CanRun == stack = None

Frame(op, req, i, dto, pc) ==
  [op |-> op, req |-> req, i |-> i, dto |-> dto, pc |-> pc, before |-> posts]

\* PATCH /post/:id up to `const post = this.findOne(id)`
UpdateBegin(params, bodies, maxViews) ==
  /\ CanRun
  /\ \E param \in params : \E dto \in bodies :
       LET id     == ParseIntPipe(param)
           errors == validateUpdate(dto)
           i      == IF id = None THEN 0 ELSE findIndex(posts, Val(id))
           req    == [id |-> param, body |-> dto]
       IN  IF id = None \/ errors # {}
           THEN /\ last' = [op |-> "update", req |-> req, code |-> 400,
                            ret |-> BadRequest(IF id = None THEN {"id"} ELSE errors)]
                /\ UNCHANGED <<posts, stack>>
           ELSE IF i = 0
           THEN /\ last' = [op |-> "update", req |-> req, code |-> 404,
                            ret |-> NotFound(Val(id))]
                /\ UNCHANGED <<posts, stack>>
           ELSE /\ TotalViews(posts) < maxViews
                /\ posts' = [posts EXCEPT ![i] = findOne(@)]
                /\ stack' = Some(Frame("update", req, i, dto, "assign"))
                /\ UNCHANGED last
  /\ UNCHANGED <<idCounter, now, cacheVars, limiterVars>>

\* Object.assign(post, updatePostDto)
UpdateAssign ==
  /\ stack # None
  /\ Val(stack).op = "update" /\ Val(stack).pc = "assign"
  /\ posts' = [posts EXCEPT ![Val(stack).i] = assign(@, Val(stack).dto)]
  /\ stack' = Some([Val(stack) EXCEPT !.pc = "updatedAt"])
  /\ UNCHANGED <<idCounter, now, last, cacheVars, limiterVars>>

\* post.updatedAt = new Date()
UpdateUpdatedAt ==
  /\ stack # None
  /\ Val(stack).op = "update" /\ Val(stack).pc = "updatedAt"
  /\ posts' = [posts EXCEPT ![Val(stack).i].updatedAt = now]
  /\ stack' = Some([Val(stack) EXCEPT !.pc = "publishedAt"])
  /\ UNCHANGED <<idCounter, now, last, cacheVars, limiterVars>>

\* if (updatePostDto.status === 1 && !post.publishedAt) post.publishedAt =
\* new Date(); return post
UpdatePublishedAt ==
  /\ stack # None
  /\ Val(stack).op = "update" /\ Val(stack).pc = "publishedAt"
  /\ LET i == Val(stack).i
     IN  /\ posts' = IF Val(stack).dto.status = Some(1) /\ posts[i].publishedAt = None
                     THEN [posts EXCEPT ![i].publishedAt = Some(now)]
                     ELSE posts
         /\ last' = [op |-> "update", req |-> Val(stack).req, code |-> 200,
                     ret |-> posts'[i]]
  /\ stack' = None
  /\ UNCHANGED <<idCounter, now, cacheVars, limiterVars>>

\* DELETE /post/:id up to `const post = this.findOne(id)`
RemoveBegin(params, maxViews) ==
  /\ CanRun
  /\ \E param \in params :
       LET id == ParseIntPipe(param)
           i  == IF id = None THEN 0 ELSE findIndex(posts, Val(id))
       IN  IF id = None
           THEN /\ last' = [op |-> "remove", req |-> param, code |-> 400,
                            ret |-> BadRequest({"id"})]
                /\ UNCHANGED <<posts, stack>>
           ELSE IF i = 0
           THEN /\ last' = [op |-> "remove", req |-> param, code |-> 404,
                            ret |-> NotFound(Val(id))]
                /\ UNCHANGED <<posts, stack>>
           ELSE /\ TotalViews(posts) < maxViews
                /\ posts' = [posts EXCEPT ![i] = findOne(@)]
                /\ stack' = Some(Frame("remove", param, i, None, "status"))
                /\ UNCHANGED last
  /\ UNCHANGED <<idCounter, now, cacheVars, limiterVars>>

\* post.status = 2
RemoveStatus ==
  /\ stack # None
  /\ Val(stack).op = "remove" /\ Val(stack).pc = "status"
  /\ posts' = [posts EXCEPT ![Val(stack).i].status = Withdrawn]
  /\ stack' = Some([Val(stack) EXCEPT !.pc = "updatedAt"])
  /\ UNCHANGED <<idCounter, now, last, cacheVars, limiterVars>>

\* post.updatedAt = new Date(); the handler returns
RemoveUpdatedAt ==
  /\ stack # None
  /\ Val(stack).op = "remove" /\ Val(stack).pc = "updatedAt"
  /\ posts' = [posts EXCEPT ![Val(stack).i].updatedAt = now]
  /\ last' = [op |-> "remove", req |-> Val(stack).req, code |-> 200,
              ret |-> [message |-> "deleted"]]
  /\ stack' = None
  /\ UNCHANGED <<idCounter, now, cacheVars, limiterVars>>

\* the handlers that are one statement on the store, started by the event loop
LoopCreate == CanRun /\ Create(LoopBodies, MaxPosts)

LoopFindOne == CanRun /\ FindOne(LoopIdParams, MaxViews)

LoopFindAll == CanRun /\ FindAll(LifecycleQueries)

NextLoop ==
  \/ Tick
  \/ LoopCreate
  \/ LoopFindOne
  \/ LoopFindAll
  \/ UpdateBegin(LoopIdParams, LoopUpdateBodies, MaxViews)
  \/ UpdateAssign
  \/ UpdateUpdatedAt
  \/ UpdatePublishedAt
  \/ RemoveBegin(LoopIdParams, MaxViews)
  \/ RemoveStatus
  \/ RemoveUpdatedAt

SpecLoop == Init /\ [][NextLoop]_vars

\* the stores the whole operation of a call in progress can leave, by the
\* operation taken in one piece
AtomicResults(frame) ==
  IF frame.op = "update"
  THEN {[frame.before EXCEPT ![frame.i] = update(@, frame.dto, t1, t2)] :
          t1 \in 0..MaxTime, t2 \in 0..MaxTime}
  ELSE {[frame.before EXCEPT ![frame.i] = remove(@, t1)] : t1 \in 0..MaxTime}

\* the stores that whole operations have left or will leave: the store itself
\* when no call is in progress, else the store before and after that call
WholeStores ==
  IF stack = None THEN {posts}
  ELSE {Val(stack).before} \cup AtomicResults(Val(stack))

\* the posts the last request showed its client, if it was a read
ObservedPosts ==
  IF last.op = "findOne" /\ last.code = 200 THEN {last.ret}
  ELSE IF IsPage THEN {last.ret.list[k] : k \in 1..Len(last.ret.list)}
  ELSE {}

(***************************************************************************)
(* C21: every PostService operation takes effect as one piece.  A call of  *)
(* update or remove, run statement by statement, leaves the store the      *)
(* operation taken whole leaves; every list query and every lookup returns *)
(* what it returns on a store left by whole operations, never on a store   *)
(* between two statements of a call; and no read shows a post with status  *)
(* 1 and no publishedAt.                                                   *)
(***************************************************************************)
C21_OperationsAtomic ==
  /\ [](\A post \in ObservedPosts : post.status = 1 => post.publishedAt # None)
  /\ [][(stack # None /\ stack' = None)
          => posts' \in AtomicResults(Val(stack))]_vars
  /\ [][(Answered /\ last'.op = "findAll" /\ last'.code = 200)
          => \E ps \in WholeStores :
               last'.ret = findAll(ps, queryDto(transformQuery(last'.req)))]_vars
  /\ [][(Answered /\ last'.op = "findOne" /\ last'.code = 200)
          => \E ps \in WholeStores :
               LET i == findIndex(ps, Val(ParseIntPipe(last'.req)))
               IN  i # 0 /\ last'.ret = findOne(ps[i])]_vars

\* an update to status 1 is between its statements, time having passed since
\* it began: the stored post has status 1 and no publishedAt yet, after a
\* list query had shown it as a draft
C21_Witness ==
  /\ stack # None
  /\ Val(stack).op = "update"
  /\ Val(stack).pc = "publishedAt"
  /\ posts[Val(stack).i].status = 1
  /\ posts[Val(stack).i].publishedAt = None
  /\ posts[Val(stack).i].updatedAt > posts[Val(stack).i].createdAt
  /\ IsPage
  /\ Len(last.ret.list) >= 1

====
